---- MODULE Spec2Model ----
(***************************************************************************)
(* Model of the cheat validator of GatesharkTools, src/check/mod.rs:       *)
(* the rule registry (get_checker), the structural pre-check               *)
(* (check_instruction_pre) and the aggregator (check_cheat).               *)
(*                                                                         *)
(* A string is a sequence of one-character strings.  A CheckResult is a    *)
(* record [tag, code, msg]; Pass and Warning carry code 0, Pass carries    *)
(* the empty message.                                                      *)
(***************************************************************************)
EXTENDS Integers, Sequences, FiniteSets, TLC

VARIABLES cheat, oracle, line, results, final_res, pc, processed,
          req, bound, ran, ruleRes

vars == <<cheat, oracle, line, results, final_res, pc, processed,
          req, bound, ran, ruleRes>>

\* ------------------------------------------------------------------ bounds
MaxInstr == 2
MaxBlockLen == 9

\* ------------------------------------------------------- program constants
BlockLen == 8
Radix == 16
\* An i64 holds 64 bits, four per base-16 digit.
I64HexDigits == 64 \div 4

\* ------------------------------------------------------------ result model
Pass == [tag |-> "Pass", code |-> 0, msg |-> ""]

Warning(m) == [tag |-> "Warning", code |-> 0, msg |-> m]

Error(c, m) == [tag |-> "Error", code |-> c, msg |-> m]

DetailedResult_new(res, ln) == [res_type |-> res, cheat_line |-> ln]

IsError(r) == r.tag = "Error"

IsWarning(r) == r.tag = "Warning"

\* ----------------------------------------------------------- error catalog
WRONG_LENGTH_A == <<1, "wrong length, block A">>

WRONG_LENGTH_B == <<2, "wrong length, block B">>

INVALID_HEX_A == <<3, "invalid hex, block A">>

INVALID_HEX_B == <<4, "invalid hex, block B">>

ErrOf(e) == Error(e[1], e[2])

\* ----------------------------------------------------------------- opcodes
WriteOps == {"WriteWord", "WriteShort", "WriteByte"}

ResetOps == {"Reset", "EndCond", "SetOffsetPtr"}

ZeroOps == {"Repeat", "EndRepeat", "SetOffsetImmediate", "AddToDxData",
            "SetDxData", "CopyDxByte", "CopyDxShort", "CopyDxWord",
            "LoadDxByte", "LoadDxShort", "LoadDxWord", "AddOffset", "BtnCode"}

PassOps == {"EqWord", "LtWord", "GtWord", "NeWord", "PatchCode", "MemoryCopy",
            "EqShort", "LtShort", "GtShort", "NeShort"}

Opcode == WriteOps \cup ResetOps \cup ZeroOps \cup PassOps

Checkers == {"WriteChecker", "ResetChecker", "ZeroAfterOpcodeChecker",
             "AlwaysPassChecker"}

ExtCheckers == Checkers \ {"AlwaysPassChecker"}

\* A mutant of get_checker: the Reset family falls into the zero-padding arm.
get_checker_ResetAsZero(opcode) ==
    IF opcode \in WriteOps THEN "WriteChecker"
    ELSE IF opcode \in ResetOps \cup ZeroOps THEN "ZeroAfterOpcodeChecker"
    ELSE "AlwaysPassChecker"

get_checker(opcode) ==
    IF opcode \in {"WriteWord", "WriteShort", "WriteByte"} THEN "WriteChecker"
    ELSE IF opcode \in {"Reset", "EndCond", "SetOffsetPtr"} THEN "ResetChecker"
    ELSE IF opcode \in {"Repeat", "EndRepeat", "SetOffsetImmediate",
                        "AddToDxData", "SetDxData", "CopyDxByte", "CopyDxShort",
                        "CopyDxWord", "LoadDxByte", "LoadDxShort", "LoadDxWord",
                        "AddOffset", "BtnCode"}
         THEN "ZeroAfterOpcodeChecker"
    ELSE "AlwaysPassChecker"

\* The results a rule of checks.rs may return: any CheckResult.
ExtResults == {Pass, Warning("rule warning"), Error(0, "rule error"),
               Error(9, "rule error")}

\* The rules of checks.rs are pure functions of (opcode, block_a, block_b);
\* oracle holds their value on the arguments the run applies them to.
ExtCheck(chk, opcode, block_a, block_b) == oracle[<<chk, opcode, block_a, block_b>>]

AlwaysPassChecker_check(opcode, block_a, block_b) == Pass

Checker_check(chk, opcode, block_a, block_b) ==
    IF chk = "AlwaysPassChecker"
    THEN AlwaysPassChecker_check(opcode, block_a, block_b)
    ELSE ExtCheck(chk, opcode, block_a, block_b)

\* ------------------------------------------------------ i64::from_str_radix
DecDigits == {"0", "1", "2", "3", "4", "5", "6", "7", "8", "9"}

LowerHex == {"a", "b", "c", "d", "e", "f"}

UpperHex == {"A", "B", "C", "D", "E", "F"}

HexDigitChars == DecDigits \cup LowerHex \cup UpperHex

\* char::to_digit(16) on a hexadecimal digit.
to_digit(c) ==
    CASE c = "0" -> 0 [] c = "1" -> 1 [] c = "2" -> 2 [] c = "3" -> 3
      [] c = "4" -> 4 [] c = "5" -> 5 [] c = "6" -> 6 [] c = "7" -> 7
      [] c = "8" -> 8 [] c = "9" -> 9
      [] c \in {"a", "A"} -> 10 [] c \in {"b", "B"} -> 11
      [] c \in {"c", "C"} -> 12 [] c \in {"d", "D"} -> 13
      [] c \in {"e", "E"} -> 14 [] c \in {"f", "F"} -> 15

Tail2(s) == SubSeq(s, 2, Len(s))

RECURSIVE StripZeros(_)
StripZeros(s) ==
    IF s # <<>> /\ s[1] = "0" THEN StripZeros(Tail2(s)) ELSE s

\* The digits, read as a base-16 number, do not fit an i64 of the given sign:
\* more than 16 significant digits, or 16 of them beyond 7FFF... (positive)
\* or beyond 8000...0 (negative).
Overflows(is_positive, digits) ==
    LET sig == StripZeros(digits) IN
    \/ Len(sig) > I64HexDigits
    \/ /\ Len(sig) = I64HexDigits
       /\ IF is_positive
          THEN to_digit(sig[1]) >= Radix \div 2
          ELSE \/ to_digit(sig[1]) > Radix \div 2
               \/ /\ to_digit(sig[1]) = Radix \div 2
                  /\ \E i \in 2..Len(sig) : sig[i] # "0"

\* A mutant of the parse: upper-case digits are not accepted.
from_str_radix_is_err_NoUpper(src) ==
    \/ src = <<>>
    \/ LET signed == src[1] \in {"+", "-"}
           digits == IF signed THEN Tail2(src) ELSE src
       IN \/ digits = <<>>
          \/ \E i \in 1..Len(digits) : digits[i] \notin DecDigits \cup LowerHex
          \/ Overflows(src[1] # "-", digits)

\* i64::from_str_radix(src, 16).is_err(): an optional leading sign, then at
\* least one digit, every character a base-16 digit, the value within i64.
from_str_radix_is_err(src) ==
    \/ src = <<>>
    \/ LET signed == src[1] \in {"+", "-"}
           digits == IF signed THEN Tail2(src) ELSE src
       IN \/ digits = <<>>
          \/ \E i \in 1..Len(digits) : digits[i] \notin HexDigitChars
          \/ Overflows(src[1] # "-", digits)

\* -------------------------------------------------------- the validator
\* A mutant of the pre-check: the length of block B is not checked.
check_instruction_pre_NoLenB(instruction) ==
    (IF Len(instruction.block_a) # BlockLen THEN <<ErrOf(WRONG_LENGTH_A)>> ELSE <<>>)
    \o (IF from_str_radix_is_err(instruction.block_a) THEN <<ErrOf(INVALID_HEX_A)>> ELSE <<>>)
    \o (IF from_str_radix_is_err(instruction.block_b) THEN <<ErrOf(INVALID_HEX_B)>> ELSE <<>>)

\* A mutant of the pre-check: each block's two checks are made together.
check_instruction_pre_ByBlock(instruction) ==
    (IF Len(instruction.block_a) # BlockLen THEN <<ErrOf(WRONG_LENGTH_A)>> ELSE <<>>)
    \o (IF from_str_radix_is_err(instruction.block_a) THEN <<ErrOf(INVALID_HEX_A)>> ELSE <<>>)
    \o (IF Len(instruction.block_b) # BlockLen THEN <<ErrOf(WRONG_LENGTH_B)>> ELSE <<>>)
    \o (IF from_str_radix_is_err(instruction.block_b) THEN <<ErrOf(INVALID_HEX_B)>> ELSE <<>>)

\* The results check_instruction_pre pushes, in the order it pushes them.
check_instruction_pre(instruction) ==
    (IF Len(instruction.block_a) # BlockLen THEN <<ErrOf(WRONG_LENGTH_A)>> ELSE <<>>)
    \o (IF Len(instruction.block_b) # BlockLen THEN <<ErrOf(WRONG_LENGTH_B)>> ELSE <<>>)
    \o (IF from_str_radix_is_err(instruction.block_a) THEN <<ErrOf(INVALID_HEX_A)>> ELSE <<>>)
    \o (IF from_str_radix_is_err(instruction.block_b) THEN <<ErrOf(INVALID_HEX_B)>> ELSE <<>>)

Tag(current, ln) == [k \in 1..Len(current) |-> DetailedResult_new(current[k], ln)]

\* A mutant of the loop body: the rule is looked up from the opcode.
check_line_ByRegistry(instr, ln) ==
    Tag(check_instruction_pre(instr)
          \o <<Checker_check(get_checker(instr.opcode), instr.opcode,
                             instr.block_a, instr.block_b)>>, ln)

\* A mutant of the loop body: the position of the instruction is dropped.
check_line_LineZero(instr, ln) ==
    Tag(check_instruction_pre(instr)
          \o <<Checker_check(instr.checker, instr.opcode,
                             instr.block_a, instr.block_b)>>, 0)

\* A mutant of the loop body: lines are numbered from one.
check_line_OneBased(instr, ln) ==
    Tag(check_instruction_pre(instr)
          \o <<Checker_check(instr.checker, instr.opcode,
                             instr.block_a, instr.block_b)>>, ln + 1)

\* One iteration of the loop of check_cheat: the details of one instruction.
check_line(instr, ln) ==
    Tag(check_instruction_pre(instr)
          \o <<Checker_check(instr.checker, instr.opcode,
                             instr.block_a, instr.block_b)>>, ln)

\* results.iter().filter(Error).count()
CountErrors(rs) == Cardinality({k \in 1..Len(rs) : IsError(rs[k].res_type)})

\* results.iter().filter(Warning).count()
CountWarnings(rs) == Cardinality({k \in 1..Len(rs) : IsWarning(rs[k].res_type)})

ERRORS_MSG == "Instruction compiled with errors."

WARNINGS_MSG == "Instruction compiled with warnings."

\* A mutant of the reduction: warnings are looked for first.
final_result_WarnFirst(rs) ==
    IF CountWarnings(rs) > 0 THEN Warning(WARNINGS_MSG)
    ELSE IF CountErrors(rs) > 0 THEN Error(0, ERRORS_MSG)
    ELSE Pass

\* A mutant of the reduction: the count of errors is compared with >= 0.
final_result_GeqZero(rs) ==
    IF CountErrors(rs) >= 0 THEN Error(0, ERRORS_MSG)
    ELSE IF CountWarnings(rs) > 0 THEN Warning(WARNINGS_MSG)
    ELSE Pass

\* The reduction at the end of check_cheat.
final_result(rs) ==
    IF CountErrors(rs) > 0 THEN Error(0, ERRORS_MSG)
    ELSE IF CountWarnings(rs) > 0 THEN Warning(WARNINGS_MSG)
    ELSE Pass

\* The whole of check_cheat as a function of the cheat: the details sequence.
RECURSIVE details_upto(_, _)
details_upto(c, n) ==
    IF n = 0 THEN <<>> ELSE details_upto(c, n - 1) \o check_line(c[n], n - 1)

\* ------------------------------------------------------------------ inputs
Rep(n, c) == [i \in 1..n |-> c]

\* A block of n characters, all "1" but for character c at position p (p = 0: none).
Gen(n, p, c) == [i \in 1..n |-> IF i = p THEN c ELSE "1"]

GenChars == {"0", "a", "F", "G", "+", "-"}

GenBlocks == {Gen(n, p, c) : n \in 0..MaxBlockLen, p \in 0..MaxBlockLen, c \in GenChars}

B_0AF2CD18 == <<"0", "A", "F", "2", "C", "D", "1", "8">>

B_CFF2AD4C == <<"C", "F", "F", "2", "A", "D", "4", "C">>

B_cff2ad4c == <<"c", "f", "f", "2", "a", "d", "4", "c">>

B_0GZA7F9C == <<"0", "G", "Z", "A", "7", "F", "9", "C">>

B_A4B8LF7J8L82JK == <<"A", "4", "B", "8", "L", "F", "7", "J", "8", "L", "8", "2", "J", "K">>

B_1234567 == <<"1", "2", "3", "4", "5", "6", "7">>

\* Blocks around the limits of an i64.
I64Blocks == { Rep(16, "F"), <<"7">> \o Rep(15, "F"), <<"0", "7">> \o Rep(15, "F"),
               <<"-", "8">> \o Rep(15, "0"), <<"-", "8">> \o Rep(14, "0") \o <<"1">>,
               <<"8">> \o Rep(15, "0"), Rep(17, "1"), Rep(9, "0") \o Rep(8, "1") }

BasicBlocks == {B_0AF2CD18, B_cff2ad4c, B_0GZA7F9C}

RichBlocks == GenBlocks \cup I64Blocks
                \cup {B_0AF2CD18, B_CFF2AD4C, B_cff2ad4c, B_0GZA7F9C,
                      B_A4B8LF7J8L82JK, B_1234567}

RichPairs == (RichBlocks \X BasicBlocks) \cup (BasicBlocks \X RichBlocks)
               \cup {<<B_0GZA7F9C, B_A4B8LF7J8L82JK>>, <<B_0AF2CD18, B_CFF2AD4C>>,
                     <<B_A4B8LF7J8L82JK, <<>>>>}

SmallPairs == { <<B_0AF2CD18, B_CFF2AD4C>>, <<B_0GZA7F9C, B_cff2ad4c>>,
                <<B_0AF2CD18, B_1234567>>, <<B_0GZA7F9C, B_A4B8LF7J8L82JK>>,
                <<B_A4B8LF7J8L82JK, <<>>>> }

Instr(op, a, b, chk) == [opcode |-> op, block_a |-> a, block_b |-> b, checker |-> chk]

\* Instructions as the parser builds them: the checker is the registry's.
Parsed(ops, pairs) == {Instr(op, ab[1], ab[2], get_checker(op)) : op \in ops, ab \in pairs}

\* Instructions built by hand: any checker with any opcode.
HandBuilt(ops, pairs) == {Instr(op, ab[1], ab[2], chk) : op \in ops, ab \in pairs, chk \in Checkers}

SeqsUpTo(S, n) == UNION {[1..k -> S] : k \in 0..n}

CtxInstrs == Parsed({"NeShort"}, {<<B_0AF2CD18, B_CFF2AD4C>>, <<B_1234567, B_0GZA7F9C>>})

\* One instruction alone, or next to one context instruction.
Around(S) == {<<i>> : i \in S} \cup {<<c, i>> : c \in CtxInstrs, i \in S}
               \cup {<<i, c>> : c \in CtxInstrs, i \in S}

Cheats == SeqsUpTo(Parsed({"WriteWord", "EqWord"}, SmallPairs), MaxInstr)
            \cup Around(Parsed({"WriteWord", "EqWord"}, RichPairs))
            \cup Around(HandBuilt(Opcode, {<<B_0AF2CD18, B_CFF2AD4C>>, <<B_0GZA7F9C, B_A4B8LF7J8L82JK>>}))

\* The arguments on which the run, or the registry's rule, consults checks.rs.
KeysOfInstr(i) ==
    {<<chk, i.opcode, i.block_a, i.block_b>> : chk \in {i.checker, get_checker(i.opcode)} \cap ExtCheckers}

KeysOf(c) == UNION {KeysOfInstr(c[k]) : k \in 1..Len(c)}

NoReq == [opcode |-> "none", block_a |-> <<>>, block_b |-> <<>>]

\* ------------------------------------------------------- check_cheat, run
InitRun(start) ==
    /\ cheat \in Cheats
    /\ oracle \in [KeysOf(cheat) -> ExtResults]
    /\ line = 0
    /\ results = <<>>
    /\ final_res = Pass
    /\ pc = start
    /\ processed = <<>>
    /\ req = NoReq
    /\ bound = "none"
    /\ ran = "none"
    /\ ruleRes = Pass

Init == InitRun("loop")

\* One iteration of the for loop: pre-check, rule, append with the line.
CheckLine ==
    /\ pc = "loop"
    /\ line < Len(cheat)
    /\ results' = results \o check_line(cheat[line + 1], line)
    /\ line' = line + 1
    /\ UNCHANGED <<cheat, oracle, final_res, pc, processed, req, bound, ran, ruleRes>>

\* The loop is over: reduce the details to the overall result and return.
Finish ==
    /\ pc = "loop"
    /\ line = Len(cheat)
    /\ final_res' = final_result(results)
    /\ pc' = "done"
    /\ UNCHANGED <<cheat, oracle, line, results, processed, req, bound, ran, ruleRes>>

Next == CheckLine \/ Finish

Spec == Init /\ [][Next]_vars

\* ------------------------------------- instructions checked in any order
InitPar == InitRun("par")

Range(f) == {f[k] : k \in DOMAIN f}

\* Stable insertion of one detail into a sequence sorted by line.
RECURSIVE InsertByLine(_, _)
InsertByLine(sorted, d) ==
    IF sorted = <<>> \/ sorted[Len(sorted)].cheat_line <= d.cheat_line
    THEN Append(sorted, d)
    ELSE Append(InsertByLine(SubSeq(sorted, 1, Len(sorted) - 1), d), sorted[Len(sorted)])

RECURSIVE SortByLine(_)
SortByLine(rs) ==
    IF rs = <<>> THEN <<>>
    ELSE InsertByLine(SortByLine(SubSeq(rs, 1, Len(rs) - 1)), rs[Len(rs)])

\* A worker checks instruction i, not yet checked, and appends its details.
ParCheck(i) ==
    /\ pc = "par"
    /\ i \in 0..(Len(cheat) - 1)
    /\ i \notin Range(processed)
    /\ results' = results \o check_line(cheat[i + 1], i)
    /\ processed' = Append(processed, i)
    /\ UNCHANGED <<cheat, oracle, line, final_res, pc, req, bound, ran, ruleRes>>

\* Every instruction is checked: sort the details by line, then reduce.
ParFinish ==
    /\ pc = "par"
    /\ Len(processed) = Len(cheat)
    /\ results' = SortByLine(results)
    /\ final_res' = final_result(SortByLine(results))
    /\ pc' = "done"
    /\ UNCHANGED <<cheat, oracle, line, processed, req, bound, ran, ruleRes>>

NextPar == (\E i \in 0..MaxInstr : ParCheck(i)) \/ ParFinish

SpecPar == InitPar /\ [][NextPar]_vars

\* ------------------------------------------------ the registry on its own
Reqs == {[opcode |-> op, block_a |-> ab[1], block_b |-> ab[2]] : op \in Opcode, ab \in SmallPairs}

InitReg ==
    /\ req \in Reqs
    /\ oracle \in [{<<chk, req.opcode, req.block_a, req.block_b>> :
                      chk \in {get_checker(req.opcode)} \cap ExtCheckers} -> ExtResults]
    /\ cheat = <<>>
    /\ line = 0
    /\ results = <<>>
    /\ final_res = Pass
    /\ pc = "new"
    /\ processed = <<>>
    /\ bound = "none"
    /\ ran = "none"
    /\ ruleRes = Pass

\* An instruction is built: its checker is looked up from its opcode.
Bind ==
    /\ pc = "new"
    /\ bound' = get_checker(req.opcode)
    /\ pc' = "bound"
    /\ UNCHANGED <<cheat, oracle, line, results, final_res, processed, req, ran, ruleRes>>

\* The bound rule, or the always-pass rule, is applied to the instruction.
RunRule ==
    /\ pc = "bound"
    /\ \E chk \in {bound, "AlwaysPassChecker"} :
          /\ ran' = chk
          /\ ruleRes' = Checker_check(chk, req.opcode, req.block_a, req.block_b)
    /\ pc' = "checked"
    /\ UNCHANGED <<cheat, oracle, line, results, final_res, processed, req, bound>>

NextReg == Bind \/ RunRule

SpecReg == InitReg /\ [][NextReg]_vars

\* ===================================================================== claims
Done == pc = "done"

Lines == 0..(Len(cheat) - 1)

\* The results attached to line i, in the order of the details sequence.
ResultsAt(i) ==
    LET ds == SelectSeq(results, LAMBDA d : d.cheat_line = i)
    IN [k \in 1..Len(ds) |-> ds[k].res_type]

AnyError == \E k \in 1..Len(results) : IsError(results[k].res_type)

AnyWarning == \E k \in 1..Len(results) : IsWarning(results[k].res_type)

IsHex8(b) == Len(b) = 8 /\ \A k \in 1..Len(b) : b[k] \in HexDigitChars

NonHex(b) == b = <<>> \/ \E k \in 1..Len(b) : b[k] \notin HexDigitChars

BoundRuleResult(i) ==
    Checker_check(cheat[i + 1].checker, cheat[i + 1].opcode,
                  cheat[i + 1].block_a, cheat[i + 1].block_b)

RegistryRuleResult(i) ==
    Checker_check(get_checker(cheat[i + 1].opcode), cheat[i + 1].opcode,
                  cheat[i + 1].block_a, cheat[i + 1].block_b)

WellFormed(i) ==
    /\ IsHex8(cheat[i + 1].block_a)
    /\ IsHex8(cheat[i + 1].block_b)
    /\ BoundRuleResult(i) = Pass

\* C1: worst-case reduction law. When check_cheat returns, the overall result
\* is Error(0, "Instruction compiled with errors.") iff some detail is an
\* Error; otherwise it is Warning("Instruction compiled with warnings.") iff
\* some detail is a Warning; otherwise it is Pass.
C1_ReductionLaw ==
    Done =>
      /\ (final_res = Error(0, ERRORS_MSG)) <=> AnyError
      /\ IsError(final_res) => final_res = Error(0, ERRORS_MSG)
      /\ ~AnyError => ((final_res = Warning(WARNINGS_MSG)) <=> AnyWarning)
      /\ (~AnyError /\ ~AnyWarning) => final_res = Pass

C1_Witness ==
    /\ Done
    /\ \E k \in 1..Len(results) :
          IsError(results[k].res_type) /\ results[k].res_type.code # 0
    /\ AnyWarning
    /\ final_res = Error(0, ERRORS_MSG)

\* C2: line numbering law. Every detail carries the zero-based index of the
\* instruction that produced it: the details are in non-decreasing line order,
\* only lines already checked occur, and the details of line i are exactly the
\* results of instruction i, however many they are.
C2_LineNumbering ==
    pc \in {"loop", "done"} =>
      /\ \A k \in 1..Len(results) : results[k].cheat_line \in 0..(line - 1)
      /\ \A k \in 1..(Len(results) - 1) :
            results[k].cheat_line <= results[k + 1].cheat_line
      /\ \A i \in 0..(line - 1) :
            ResultsAt(i) = check_instruction_pre(cheat[i + 1]) \o <<BoundRuleResult(i)>>

C2_Witness ==
    /\ Done
    /\ Len(cheat) = 2
    /\ Len(ResultsAt(0)) >= 3
    /\ Len(ResultsAt(1)) >= 2
    /\ ResultsAt(0) # ResultsAt(1)

\* C3: an instruction at index i with a block whose length is not 8 has at
\* least one Error detail at line i, and the overall result is an Error,
\* whatever the other instructions are and whatever the bound rule returns.
C3_WrongLength ==
    Done =>
      \A i \in Lines :
        (Len(cheat[i + 1].block_a) # 8 \/ Len(cheat[i + 1].block_b) # 8) =>
          /\ \E k \in 1..Len(results) :
                results[k].cheat_line = i /\ IsError(results[k].res_type)
          /\ IsError(final_res)

C3_Witness ==
    /\ Done
    /\ \E i \in Lines :
          /\ cheat[i + 1].block_a = B_0AF2CD18
          /\ cheat[i + 1].block_b = B_1234567
          /\ cheat[i + 1].checker = "WriteChecker"
          /\ BoundRuleResult(i) = Pass
          /\ ResultsAt(i) = <<ErrOf(WRONG_LENGTH_B), Pass>>
    /\ IsError(final_res)

\* C4: an instruction at index i with a non-hexadecimal block (empty, or with a
\* character that is no hexadecimal digit, a leading sign included) has an
\* "invalid hex" Error detail for that block at line i.
C4_NonHexFlagged ==
    Done =>
      \A i \in Lines :
        /\ NonHex(cheat[i + 1].block_a) =>
              \E k \in 1..Len(results) :
                results[k] = DetailedResult_new(ErrOf(INVALID_HEX_A), i)
        /\ NonHex(cheat[i + 1].block_b) =>
              \E k \in 1..Len(results) :
                results[k] = DetailedResult_new(ErrOf(INVALID_HEX_B), i)

\* C5: an instruction whose blocks are each exactly 8 hexadecimal digits and
\* whose bound rule returns Pass has exactly one detail at its line, a Pass;
\* a cheat made only of such instructions has overall result Pass.
C5_WellFormedPasses ==
    Done =>
      /\ \A i \in Lines : WellFormed(i) => ResultsAt(i) = <<Pass>>
      /\ (\A i \in Lines : WellFormed(i)) => final_res = Pass

C5_Witness ==
    /\ Done
    /\ Len(cheat) = 2
    /\ \A i \in Lines : WellFormed(i)
    /\ \E i \in Lines : cheat[i + 1].checker = "WriteChecker"
    /\ \E i \in Lines : cheat[i + 1].block_a = B_cff2ad4c
    /\ \E i \in Lines : cheat[i + 1].block_b = B_CFF2AD4C
    /\ final_res = Pass

\* C6: a cheat with zero instructions yields (Pass, empty details sequence).
C6_EmptyCheat ==
    (Done /\ cheat = <<>>) => (final_res = Pass /\ results = <<>>)

C6_Witness == Done /\ cheat = <<>> /\ final_res = Pass

\* C7 (as claimed): the rule's result appended for each line is the result of
\* the rule the registry selects for the instruction's opcode, also when the
\* instruction's checker field holds another rule.
C7_RuleIsRegistrys ==
    Done =>
      \A i \in Lines :
        ResultsAt(i)[Len(ResultsAt(i))] = RegistryRuleResult(i)

\* C7 (amended): the rule's result appended for each line is the result of the
\* rule held by the instruction's checker field; it is the registry's rule for
\* the opcode when the field was bound to get_checker(opcode).
C7_RuleIsBound ==
    Done =>
      \A i \in Lines :
        /\ ResultsAt(i)[Len(ResultsAt(i))] = BoundRuleResult(i)
        /\ cheat[i + 1].checker = get_checker(cheat[i + 1].opcode) =>
              ResultsAt(i)[Len(ResultsAt(i))] = RegistryRuleResult(i)

C7_Witness ==
    /\ Done
    /\ \E i \in Lines :
          /\ cheat[i + 1].checker # get_checker(cheat[i + 1].opcode)
          /\ BoundRuleResult(i) # RegistryRuleResult(i)
          /\ ResultsAt(i)[Len(ResultsAt(i))] = BoundRuleResult(i)

\* C8: the registry is total over the closed opcode set and groups it so:
\* the three writes -> write rule; Reset, EndCond, SetOffsetPtr -> reset rule;
\* the repeat, offset, Dx and button opcodes -> zero-after-opcode rule; the
\* comparisons, PatchCode and MemoryCopy -> always-pass rule, which returns
\* Pass for every opcode and every pair of blocks.
C8_Registry ==
    /\ pc \in {"bound", "checked"} =>
          /\ bound \in Checkers
          /\ req.opcode \in WriteOps => bound = "WriteChecker"
          /\ req.opcode \in ResetOps => bound = "ResetChecker"
          /\ req.opcode \in ZeroOps => bound = "ZeroAfterOpcodeChecker"
          /\ req.opcode \in PassOps => bound = "AlwaysPassChecker"
    /\ (pc = "checked" /\ ran = "AlwaysPassChecker") => ruleRes = Pass

C8_Witness ==
    /\ pc = "checked"
    /\ req.opcode = "SetOffsetPtr"
    /\ bound = "ResetChecker"
    /\ ran = "AlwaysPassChecker"
    /\ req.block_b = B_A4B8LF7J8L82JK
    /\ ruleRes = Pass

\* C9: instructions are validated independently. When the instructions are
\* checked in any order and the details then sorted by line, the details and
\* the overall result are those of the sequential check_cheat; equal
\* instructions get equal results, and a well-formed instruction has no Error
\* at its line whatever its neighbours are.
C9_OrderIndependent ==
    Done =>
      /\ results = details_upto(cheat, Len(cheat))
      /\ final_res = final_result(details_upto(cheat, Len(cheat)))
      /\ \A i, j \in Lines : cheat[i + 1] = cheat[j + 1] => ResultsAt(i) = ResultsAt(j)
      /\ \A i \in Lines : WellFormed(i) =>
            \A k \in 1..Len(results) :
              results[k].cheat_line = i => ~IsError(results[k].res_type)

C9_Witness ==
    /\ Done
    /\ processed = <<1, 0>>
    /\ WellFormed(0)
    /\ ResultsAt(0) = <<Pass>>
    /\ Len(ResultsAt(1)) >= 3
    /\ IsError(final_res)

\* The structural results an instruction must get, condition by condition.
ExpectedPre(instr) ==
    LET checks == << <<Len(instr.block_a) # 8, ErrOf(WRONG_LENGTH_A)>>,
                     <<Len(instr.block_b) # 8, ErrOf(WRONG_LENGTH_B)>>,
                     <<from_str_radix_is_err(instr.block_a), ErrOf(INVALID_HEX_A)>>,
                     <<from_str_radix_is_err(instr.block_b), ErrOf(INVALID_HEX_B)>> >>
        held == SelectSeq(checks, LAMBDA c : c[1])
    IN [k \in 1..Len(held) |-> held[k][2]]

\* C10: per-instruction detail shape. The details of a line are, in this
\* order, those of [wrong length A, wrong length B, invalid hex A, invalid
\* hex B] whose condition holds, each once, then the one result of the bound
\* rule: 1 to 5 details a line, n to 5n in all. Blocks "0GZA7F9C" and
\* "A4B8LF7J8L82JK" get wrong-length-B, invalid-hex-A and invalid-hex-B, not
\* wrong-length-A, and an overall result that is not Pass.
C10_DetailShape ==
    Done =>
      /\ \A i \in Lines :
            /\ ResultsAt(i) = ExpectedPre(cheat[i + 1]) \o <<BoundRuleResult(i)>>
            /\ Len(ResultsAt(i)) \in 1..5
            /\ (cheat[i + 1].block_a = B_0GZA7F9C /\ cheat[i + 1].block_b = B_A4B8LF7J8L82JK) =>
                  /\ ResultsAt(i) = <<ErrOf(WRONG_LENGTH_B), ErrOf(INVALID_HEX_A),
                                      ErrOf(INVALID_HEX_B), BoundRuleResult(i)>>
                  /\ final_res # Pass
      /\ Len(results) \in Len(cheat)..(5 * Len(cheat))

C10_Witness ==
    /\ Done
    /\ \E i \in Lines :
          /\ ResultsAt(i) = <<ErrOf(WRONG_LENGTH_A), ErrOf(WRONG_LENGTH_B),
                              ErrOf(INVALID_HEX_A), ErrOf(INVALID_HEX_B),
                              Warning("rule warning")>>
    /\ \E i \in Lines :
          /\ cheat[i + 1].block_a = B_0GZA7F9C
          /\ cheat[i + 1].block_b = B_A4B8LF7J8L82JK
          /\ Len(ResultsAt(i)) = 4

====
